---- MODULE Spec2Model ----
(***************************************************************************)
(* A model of music-collection-utils (src/main.py): the Operation value     *)
(* and its execution on a filesystem, the lazy AudioDirectory tree, the     *)
(* rename and clean-copy planners and the executor that interleaves         *)
(* planning and execution.                                                  *)
(*                                                                          *)
(* Strings are sequences of tokens (<<"0","1","-","Song",".mp3">> is the    *)
(* name 01-Song.mp3; the digits are one token each so that a width counts   *)
(* characters), a path is a sequence of names, and Python's None and ""     *)
(* are both the empty sequence: the program only ever tests them for        *)
(* truthiness.                                                              *)
(***************************************************************************)
EXTENDS Integers, Sequences, FiniteSets, TLC

VARIABLES
    fs,        \* the filesystem: path -> [kind, entries, tag]
    objs,      \* the AudioDirectory objects, by the path they were made for
    cmd,       \* the command line of the run
    pc,        \* where the executor's loop stands
    gen,       \* the planner generator's frame
    cur,       \* the Operation the planner yielded last
    yielded,   \* the Operations the planner has yielded, in order
    table,     \* the rows shown so far
    executed,  \* the Operations handed to execute(), in order
    error,     \* the exception that ended the run and the call that raised it
    fs0,       \* the filesystem the run started with
    calls      \* what the accessor calls of the load scenario returned

vars == <<fs, objs, cmd, pc, gen, cur, yielded, table, executed, error, fs0, calls>>

\* -------------------------------------------------------------------------
\* Bounds of the model
\* -------------------------------------------------------------------------

\* Files and directories below the root of an initial tree.
MaxEntries == 3

\* -------------------------------------------------------------------------
\* Strings, names and paths
\* -------------------------------------------------------------------------

None == <<>>

Truthy(v) == v # <<>>

Parent(p) == SubSeq(p, 1, Len(p) - 1)

Basename(p) == p[Len(p)]

Joinpath(p, name) == Append(p, name)

IsPrefix(p, q) == Len(p) <= Len(q) /\ SubSeq(q, 1, Len(p)) = p

Relative_to(p, base) == SubSeq(p, Len(base) + 1, Len(p))

Drop(s, x) == SelectSeq(s, LAMBDA e : e # x)

InsertAt(s, i, x) == SubSeq(s, 1, i - 1) \o <<x>> \o SubSeq(s, i, Len(s))

Range(s) == {s[i] : i \in 1..Len(s)}

\* -------------------------------------------------------------------------
\* The filesystem provider (os, shutil, pathlib)
\*
\* fs maps every existing path to its entry. A directory's entries field is
\* its listing in the order iterdir() reports it; a file carries the tag
\* mapping mutagen reads from it. Top-level paths live in the working
\* directory, which is not an entry itself.
\* -------------------------------------------------------------------------

TagKeys == {"album", "albumartist", "title", "tracknumber", "artist"}

NoTag == [k \in TagKeys |-> None]

DirEntry(entries) == [kind |-> "dir", entries |-> entries, tag |-> NoTag]

FileEntry(tag) == [kind |-> "file", entries |-> <<>>, tag |-> tag]

Exists(f, p) == p = <<>> \/ p \in DOMAIN f

IsDir(f, p) == p = <<>> \/ (p \in DOMAIN f /\ f[p].kind = "dir")

IsFile(f, p) == p \in DOMAIN f /\ f[p].kind = "file"

IsEmptyDir(f, p) == p \in DOMAIN f /\ f[p].kind = "dir" /\ f[p].entries = <<>>

\* path.iterdir(): the directory's entries as paths, in listing order.
Iterdir(f, p) == [i \in 1..Len(f[p].entries) |-> Joinpath(p, f[p].entries[i])]

\* Where a new entry may appear in its parent's listing: anywhere.
Slots(f, p) ==
    IF Len(p) > 1 /\ Parent(p) \in DOMAIN f
    THEN 1..(Len(Drop(f[Parent(p)].entries, Basename(p))) + 1)
    ELSE {1}

\* p and everything below it leave the filesystem.
Unlink(f, p) ==
    LET g == [q \in {r \in DOMAIN f : ~IsPrefix(p, r)} |-> f[q]]
    IN IF Len(p) > 1 /\ Parent(p) \in DOMAIN g
       THEN [g EXCEPT ![Parent(p)].entries = Drop(@, Basename(p))]
       ELSE g

\* entry e appears at p, at place i of its parent's listing.
Link(f, p, e, i) ==
    LET g == [q \in DOMAIN f \cup {p} |-> IF q = p THEN e ELSE f[q]]
    IN IF Len(p) > 1 /\ Parent(p) \in DOMAIN f
       THEN [g EXCEPT ![Parent(p)].entries = InsertAt(Drop(@, Basename(p)), i, Basename(p))]
       ELSE g

\* src and everything below it move to dst, replacing what is there.
Move(f, src, dst, i) ==
    LET sub == {q \in DOMAIN f : IsPrefix(src, q)}
        g   == Unlink(Unlink(f, dst), src)
        h   == [q \in DOMAIN g \cup {dst \o Relative_to(r, src) : r \in sub} |->
                  IF q \in DOMAIN g THEN g[q]
                  ELSE f[src \o Relative_to(q, dst)]]
    IN IF Len(dst) > 1 /\ Parent(dst) \in DOMAIN h
       THEN [h EXCEPT ![Parent(dst)].entries = InsertAt(@, i, Basename(dst))]
       ELSE h

Outcome(f, e) == [fs |-> f, err |-> e]

\* os.rename(src, dst). Whether an existing destination is replaced depends
\* on the host: POSIX replaces a file by a file and an empty directory by a
\* directory, Windows refuses every existing destination.
Os_rename(f, src, dst) ==
    IF ~Exists(f, src) \/ src = <<>> THEN {Outcome(f, "FileNotFoundError")}
    ELSE IF ~IsDir(f, Parent(dst)) THEN {Outcome(f, "FileNotFoundError")}
    ELSE IF src = dst THEN {Outcome(f, "none")}
    ELSE IF IsPrefix(src, dst) THEN {Outcome(f, "OSError")}
    ELSE IF Exists(f, dst)
    THEN {Outcome(f, "FileExistsError")} \cup
         (IF (IsFile(f, src) /\ IsFile(f, dst)) \/ (IsDir(f, src) /\ IsEmptyDir(f, dst))
          THEN {Outcome(Move(f, src, dst, i), "none") : i \in Slots(Unlink(f, src), dst)}
          ELSE {})
    ELSE {Outcome(Move(f, src, dst, i), "none") : i \in Slots(Unlink(f, src), dst)}

\* os.rmdir(p)
Os_rmdir(f, p) ==
    IF IsEmptyDir(f, p) THEN Outcome(Unlink(f, p), "none") ELSE Outcome(f, "OSError")

\* The tail of os.removedirs: prune the ancestors while they are empty.
RECURSIVE PruneUp(_, _)
PruneUp(f, p) ==
    IF p = <<>> \/ ~IsEmptyDir(f, p) THEN f ELSE PruneUp(Unlink(f, p), Parent(p))

\* os.removedirs(p): remove the leaf directory, then every ancestor that
\* has become empty.
Os_removedirs(f, p) ==
    IF IsEmptyDir(f, p) THEN Outcome(PruneUp(Unlink(f, p), Parent(p)), "none")
    ELSE Outcome(f, "OSError")

\* os.remove(p)
Os_remove(f, p) ==
    IF IsFile(f, p) THEN Outcome(Unlink(f, p), "none")
    ELSE IF IsDir(f, p) THEN Outcome(f, "IsADirectoryError")
    ELSE Outcome(f, "FileNotFoundError")

\* The filesystems os.makedirs(p, exist_ok=True) can leave: the missing
\* directories of p are made from the top, each placed anywhere in its
\* parent's listing; a file in the way fails the call.
RECURSIVE Os_makedirs(_, _)
Os_makedirs(f, p) ==
    IF p = <<>> THEN {Outcome(f, "none")}
    ELSE IF IsDir(f, p) THEN {Outcome(f, "none")}
    ELSE IF IsFile(f, p) THEN {Outcome(f, "FileExistsError")}
    ELSE UNION { IF r.err # "none" THEN {r}
                 ELSE {Outcome(Link(r.fs, p, DirEntry(<<>>), i), "none") : i \in Slots(r.fs, p)}
               : r \in Os_makedirs(f, Parent(p)) }

\* shutil.copy2(src, dst): into dst when dst is a directory, else onto dst.
Shutil_copy2(f, src, dst) ==
    LET to == IF IsDir(f, dst) THEN Joinpath(dst, Basename(src)) ELSE dst
    IN IF ~Exists(f, src) \/ src = <<>> THEN {Outcome(f, "FileNotFoundError")}
       ELSE IF IsDir(f, src) THEN {Outcome(f, "IsADirectoryError")}
       ELSE IF to = src THEN {Outcome(f, "SameFileError")}
       ELSE IF IsDir(f, to) THEN {Outcome(f, "IsADirectoryError")}
       ELSE IF ~IsDir(f, Parent(to)) THEN {Outcome(f, "FileNotFoundError")}
       ELSE IF IsFile(f, to) THEN {Outcome([f EXCEPT ![to] = FileEntry(f[src].tag)], "none")}
       ELSE {Outcome(Link(f, to, FileEntry(f[src].tag), i), "none") : i \in Slots(f, to)}

\* -------------------------------------------------------------------------
\* Operation
\* -------------------------------------------------------------------------

Operation(op, src, dst) == [op |-> op, src |-> src, dst |-> dst]

\* "no Operation": what a planner step returns when it returns None.
NoOperation == Operation("None", <<>>, <<>>)

Operation_remove(f, o) ==
    IF IsDir(f, o.src) /\ o.src # <<>> THEN {Os_removedirs(f, o.src)} ELSE {Os_remove(f, o.src)}

Operation_rename(f, o) ==
    IF Truthy(o.dst) THEN Os_rename(f, o.src, o.dst) ELSE {Outcome(f, "none")}

Operation_copy(f, o) ==
    IF Truthy(o.dst)
    THEN UNION { IF r.err # "none" THEN {r} ELSE Shutil_copy2(r.fs, o.src, o.dst)
               : r \in Os_makedirs(f, Parent(o.dst)) }
    ELSE {Outcome(f, "none")}

\* execute dispatching by kind whatever dry_run is.
execute_Always(f, o, dry_run) ==
    CASE o.op = "Rename" -> Operation_rename(f, o)
      [] o.op = "Remove" -> Operation_remove(f, o)
      [] o.op = "Copy"   -> Operation_copy(f, o)
      [] OTHER           -> {Outcome(f, "none")}

\* Operation.execute(dry_run): the filesystems it can leave and the error it
\* raises, "none" when it returns.
execute(f, o, dry_run) ==
    IF dry_run THEN {Outcome(f, "none")}
    ELSE CASE o.op = "Rename" -> Operation_rename(f, o)
           [] o.op = "Remove" -> Operation_remove(f, o)
           [] o.op = "Copy"   -> Operation_copy(f, o)
           [] OTHER           -> {Outcome(f, "none")}

\* -------------------------------------------------------------------------
\* The MIME guesser and the path nodes
\* -------------------------------------------------------------------------

AudioMpeg == <<"audio/", "mpeg">>

AudioMpegurl == <<"audio/", "x-mpegurl">>

ImageJpeg == <<"image/", "jpeg">>

OctetStream == <<"application/", "octet-stream">>

\* mimetypes.guess_type(path)[0]: by the name's extension, None without one.
Guess_type(p) ==
    LET name == Basename(p)
    IN IF Len(name) < 2 THEN None
       ELSE CASE name[Len(name)] = ".mp3" -> AudioMpeg
              [] name[Len(name)] = ".m3u" -> AudioMpegurl
              [] name[Len(name)] = ".jpg" -> ImageJpeg
              [] OTHER -> None

\* mimetypes.guess_extension(mime_type)
Guess_extension(mime) ==
    CASE mime = AudioMpeg    -> <<".mp3">>
      [] mime = AudioMpegurl -> <<".m3u">>
      [] mime = ImageJpeg    -> <<".jpg">>
      [] OTHER               -> None

IsAudioMime(mime) == Truthy(mime) /\ mime[1] = "audio/"

Node(cls, path, mime_type, tag) ==
    [cls |-> cls, path |-> path, mime_type |-> mime_type, tag |-> tag]

AudioMediaFile(path, mime_type, tag) == Node("AudioMediaFile", path, mime_type, tag)

PlaylistFile(path, mime_type) == Node("PlaylistFile", path, mime_type, NoTag)

OtherTypeFile(path, mime_type) == Node("OtherTypeFile", path, mime_type, NoTag)

\* An AudioDirectory seen as a path node.
DirectoryNode(path) == Node("AudioDirectory", path, None, NoTag)

\* AudioMediaFile.get_tag(key): the first value of the tag's list, or None.
get_tag(node, key) == node.tag[key]

\* The attributes templates refer to that getattr(node, key) finds. The
\* properties ext, album, albumartist, title and tracknumber exist on
\* AudioMediaFile only.
HasAttr(node, key) ==
    node.cls = "AudioMediaFile" /\ key \in {"ext", "album", "albumartist", "title", "tracknumber"}

GetAttr(node, key) ==
    IF key = "ext" THEN Guess_extension(node.mime_type) ELSE get_tag(node, key)

Found(v) == [err |-> "none", val |-> v]

Raised(e) == [err |-> e, val |-> None]

\* __getitem__ answering an empty string for an attribute without a value.
getitem_Blank(node, key) ==
    IF ~HasAttr(node, key) THEN Raised("AttributeError")
    ELSE IF Truthy(GetAttr(node, key)) THEN Found(GetAttr(node, key))
    ELSE Found(<<>>)

\* AbstractPath.__getitem__(key): a truthy attribute, else the lookup in the
\* node's own (empty) dict, which raises KeyError; getattr raises
\* AttributeError for a name the node does not have.
getitem(node, key) ==
    IF ~HasAttr(node, key) THEN Raised("AttributeError")
    ELSE IF Truthy(GetAttr(node, key)) THEN Found(GetAttr(node, key))
    ELSE Raised("KeyError")

\* ChainMap(node, params)[key]: the node asked first, params on its KeyError.
ChainMapGet_OwnFirst(params, node, key) ==
    IF getitem(node, key).err = "KeyError" /\ key \in DOMAIN params
    THEN Found(params[key])
    ELSE getitem(node, key)

\* ChainMap(params, node)[key]: the first mapping that has the key.
ChainMapGet(params, node, key) ==
    IF key \in DOMAIN params THEN Found(params[key]) ELSE getitem(node, key)

NoParams == [k \in {} |-> None]

\* -------------------------------------------------------------------------
\* Name templating
\* -------------------------------------------------------------------------

\* A format string is a sequence of parts: literal text, or a replacement
\* field {name:>0w}, w = 0 standing for no format spec.
Lit(text) == [kind |-> "lit", name |-> "", lit |-> text, width |-> 0]

Field(name, width) == [kind |-> "field", name |-> name, lit |-> <<>>, width |-> width]

RECURSIVE Zeros(_)
Zeros(n) == IF n <= 0 THEN <<>> ELSE <<"0">> \o Zeros(n - 1)

\* format(v, ">0w"): v right-aligned in w characters, filled with zeros.
PadLeft(v, w) == Zeros(w - Len(v)) \o v

\* str.format_map(mapping): the parts rendered left to right; the first
\* failing lookup fails the call.
RECURSIVE Format_map(_, _, _)

\* One part rendered: a literal as it is, a field looked up.
FormatPart(part, params, node) ==
    IF part.kind = "lit" THEN Found(part.lit) ELSE ChainMapGet(params, node, part.name)

FormatJoin(part, this, rest) ==
    IF rest.err # "none" THEN rest ELSE Found(PadLeft(this.val, part.width) \o rest.val)

FormatFrom(part, this, format, params, node) ==
    IF this.err # "none" THEN this
    ELSE FormatJoin(part, this, Format_map(Tail(format), params, node))

Format_map(format, params, node) ==
    IF format = <<>> THEN Found(<<>>)
    ELSE FormatFrom(Head(format), FormatPart(Head(format), params, node), format, params, node)

\* pathlib's joinpath with one name: joining "" gives the path itself.
Joinname(p, name) == IF name = <<>> THEN p ELSE Joinpath(p, name)

Planned(o) == [err |-> "none", op |-> o]

PlanRaised(e) == [err |-> e, op |-> NoOperation]

\* RenameTo without the comparison of the new path with the current one.
RenameTo_Unchecked(node, new_path) == Planned(Operation("Rename", node.path, new_path))

RenameTo(node, new_path) ==
    IF node.path # new_path
    THEN Planned(Operation("Rename", node.path, new_path))
    ELSE Planned(NoOperation)

RenameAs(node, new_name) ==
    IF new_name.err # "none" THEN PlanRaised(new_name.err)
    ELSE RenameTo(node, Joinname(Parent(node.path), new_name.val))

\* AbstractPath.make_rename_operation(name_format, **params). PlaylistFile
\* inherits it unchanged: the method it overrides is called rename, which
\* nothing calls.
make_rename_operation(node, name_format, params) ==
    RenameAs(node, Format_map(name_format, params, node))

\* make_copy_operation building a move instead of a copy.
make_copy_operation_Move(node, dst) == Operation("Rename", node.path, dst)

\* AbstractPath.make_copy_operation(dst)
make_copy_operation(node, dst) == Operation("Copy", node.path, dst)

\* AbstractPath.make_remove_operation()
make_remove_operation(node) == Operation("Remove", node.path, <<>>)

\* -------------------------------------------------------------------------
\* AudioDirectory
\*
\* objs is the heap of AudioDirectory objects, an object's identity being
\* its index; childs holds identities. nscan counts the object's iterdir()
\* calls (an observation, not a field of the class).
\* -------------------------------------------------------------------------

AudioDirectory(path) ==
    [path |-> path, initilized |-> FALSE, audios |-> <<>>, other |-> <<>>,
     childs |-> <<>>, nscan |-> 0]

\* The body of load's loop for one directory entry.
ClassifyFile(heap, id, path, mime, tag) ==
    IF IsAudioMime(mime)
    THEN IF \E k \in TagKeys : Truthy(tag[k])
         THEN [heap EXCEPT ![id].audios = Append(@, AudioMediaFile(path, mime, tag))]
         ELSE [heap EXCEPT ![id].audios = Append(@, PlaylistFile(path, mime))]
    ELSE [heap EXCEPT ![id].other =
             Append(@, OtherTypeFile(path, IF Truthy(mime) THEN mime ELSE OctetStream))]

Classify(heap, f, id, path) ==
    IF IsDir(f, path)
    THEN [Append(heap, AudioDirectory(path)) EXCEPT ![id].childs = Append(@, Len(heap) + 1)]
    ELSE ClassifyFile(heap, id, path, Guess_type(path), f[path].tag)

RECURSIVE LoadEntries(_, _, _, _)
LoadEntries(heap, f, id, paths) ==
    IF paths = <<>> THEN heap
    ELSE LoadEntries(Classify(heap, f, id, Head(paths)), f, id, Tail(paths))

Loaded(heap, e) == [heap |-> heap, err |-> e]

\* load's loop over self.path.iterdir(): listing a path that is not there or
\* is no directory raises.
Scan(h, f, id) ==
    IF ~(h[id].path \in DOMAIN f) THEN Loaded(h, "FileNotFoundError")
    ELSE IF ~IsDir(f, h[id].path) THEN Loaded(h, "NotADirectoryError")
    ELSE Loaded(LoadEntries(h, f, id, Iterdir(f, h[id].path)), "none")

\* load scanning whenever the path exists.
load_Rescanning(heap, f, id, reload) ==
    IF Exists(f, heap[id].path) \/ reload
    THEN Scan([heap EXCEPT ![id].initilized = TRUE, ![id].nscan = @ + 1], f, id)
    ELSE Loaded(heap, "none")

\* AudioDirectory.load(reload): scans when the path exists and the object is
\* not initialised, or when reload is set; the collections are appended to.
load(heap, f, id, reload) ==
    IF (Exists(f, heap[id].path) /\ ~heap[id].initilized) \/ reload
    THEN Scan([heap EXCEPT ![id].initilized = TRUE, ![id].nscan = @ + 1], f, id)
    ELSE Loaded(heap, "none")

\* A running audios(), others() or directories() generator: one frame per
\* nested call, the innermost last. ci is the next child to descend into,
\* ai the next element of the frame's own list to yield.
Frame(id, releative) == [id |-> id, ci |-> 1, ai |-> 1, releative |-> releative]

Pulled(heap, stack, item, done, e) ==
    [heap |-> heap, stack |-> stack, item |-> item, done |-> done, err |-> e]

\* next() on such a generator, which names the list it yields from
\* ("audios", "other" or "childs"): descend into the children first when
\* releative, loading each as its generator is made, then yield the
\* directory's own list.
RECURSIVE Pull(_, _, _, _)

\* The child's generator is made (its load has run, l) and pulled from.
Descend(l, f, stack, which) ==
    IF l.err # "none" THEN Pulled(l.heap, stack, None, TRUE, l.err)
    ELSE Pull(l.heap, f, stack, which)

\* PullTop yielding the directory's own list before its children's.
PullTop_SelfFirst(heap, f, stack, which, n, top, o) ==
    IF top.ai <= Len(o[which])
    THEN Pulled(heap, [stack EXCEPT ![n].ai = @ + 1], o[which][top.ai], FALSE, "none")
    ELSE IF top.releative /\ top.ci <= Len(o.childs)
    THEN Descend(load(heap, f, o.childs[top.ci], FALSE), f,
                 Append([stack EXCEPT ![n].ci = @ + 1], Frame(o.childs[top.ci], TRUE)), which)
    ELSE Pull(heap, f, SubSeq(stack, 1, n - 1), which)

PullTop(heap, f, stack, which, n, top, o) ==
    IF top.releative /\ top.ci <= Len(o.childs)
    THEN Descend(load(heap, f, o.childs[top.ci], FALSE), f,
                 Append([stack EXCEPT ![n].ci = @ + 1], Frame(o.childs[top.ci], TRUE)), which)
    ELSE IF top.ai <= Len(o[which])
    THEN Pulled(heap, [stack EXCEPT ![n].ai = @ + 1], o[which][top.ai], FALSE, "none")
    ELSE Pull(heap, f, SubSeq(stack, 1, n - 1), which)

Pull(heap, f, stack, which) ==
    IF stack = <<>> THEN Pulled(heap, stack, None, TRUE, "none")
    ELSE PullTop(heap, f, stack, which, Len(stack), stack[Len(stack)],
                 heap[stack[Len(stack)].id])

Drained(heap, items, e) == [heap |-> heap, items |-> items, err |-> e]

\* Everything a generator still yields, with the heap its loads leave.
RECURSIVE Drain(_, _, _, _, _)

DrainNext(r, f, which, acc) ==
    IF r.done THEN Drained(r.heap, acc, r.err)
    ELSE Drain(r.heap, f, r.stack, which, Append(acc, r.item))

Drain(heap, f, stack, which, acc) == DrainNext(Pull(heap, f, stack, which), f, which, acc)

\* An accessor under load_required: load() has run (l), then the generator
\* is made and, here, run to its end.
Accessor(l, f, id, releative, which) ==
    IF l.err # "none" THEN Drained(l.heap, <<>>, l.err)
    ELSE Drain(l.heap, f, <<Frame(id, releative)>>, which, <<>>)

\* audios yielding the directory's own list whatever releative is.
audios_OwnOnly(heap, f, id, releative) ==
    Accessor(load(heap, f, id, FALSE), f, id, FALSE, "audios")

\* AudioDirectory.audios(releative), run to its end.
audios(heap, f, id, releative) ==
    Accessor(load(heap, f, id, FALSE), f, id, releative, "audios")

\* AudioDirectory.others(releative), run to its end.
others(heap, f, id, releative) ==
    Accessor(load(heap, f, id, FALSE), f, id, releative, "other")

\* directories yielding the immediate subdirectories whatever releative is.
directories_OwnOnly(heap, f, id, releative) ==
    Accessor(load(heap, f, id, FALSE), f, id, FALSE, "childs")

\* AudioDirectory.directories(releative), run to its end.
directories(heap, f, id, releative) ==
    Accessor(load(heap, f, id, FALSE), f, id, releative, "childs")

AlbumsOf(m) == [i \in 1..Len(m) |-> get_tag(m[i], "album")]

AlbumsAmong(r) ==
    Drained(r.heap,
            AlbumsOf(SelectSeq(r.items,
                LAMBDA a : a.cls = "AudioMediaFile" /\ Truthy(get_tag(a, "album")))),
            r.err)

\* AudioDirectory.albums(releative): the truthy album of every
\* AudioMediaFile that audios(releative) yields, in order.
albums(heap, f, id, releative) == AlbumsAmong(audios(heap, f, id, releative))

Answer(heap, result, e) == [heap |-> heap, result |-> result, err |-> e]

\* FirstOf answering True on StopIteration and False on an element.
FirstOf_Inverted(r) == Answer(r.heap, r.done, r.err)

FirstOf(r) == Answer(r.heap, ~r.done, r.err)

\* AudioExistsFrom running audios(releative) to its end before it answers.
AnyOf(r) == Answer(r.heap, r.items # <<>>, r.err)

AudioExistsFrom_Exhausting(l, f, id, releative) ==
    IF l.err # "none" THEN Answer(l.heap, FALSE, l.err)
    ELSE AnyOf(Drain(l.heap, f, <<Frame(id, releative)>>, "audios", <<>>))

AudioExistsFrom(l, f, id, releative) ==
    IF l.err # "none" THEN Answer(l.heap, FALSE, l.err)
    ELSE FirstOf(Pull(l.heap, f, <<Frame(id, releative)>>, "audios"))

\* AudioDirectory.audio_exists(releative): whether audios(releative) yields
\* a first element; nothing more is pulled.
audio_exists(heap, f, id, releative) ==
    AudioExistsFrom(load(heap, f, id, FALSE), f, id, releative)

\* -------------------------------------------------------------------------
\* The planners: the generators rename.operations and clean_copy.operations
\* -------------------------------------------------------------------------

\* The frame of a planner generator: the loop it is in and that loop's
\* running iterator. The root AudioDirectory is object 1.
Gen(phase, stack) == [phase |-> phase, stack |-> stack]

NewGen == Gen("new", <<>>)

Yielded(heap, g, o) == [heap |-> heap, gen |-> g, op |-> o, done |-> FALSE, err |-> "none"]

Stopped(heap, e) ==
    [heap |-> heap, gen |-> Gen("end", <<>>), op |-> NoOperation, done |-> TRUE, err |-> e]

\* next() on rename's operations(base): runs to the next yield, to the end
\* or to the exception that escapes.
RECURSIVE rename_operations(_, _, _, _)

\* "if op := ...: yield op", then on with the loop.
YieldOrGoOn(heap, f, g, c, m) ==
    IF m.err # "none" THEN Stopped(heap, m.err)
    ELSE IF m.op # NoOperation THEN Yielded(heap, g, m.op)
    ELSE rename_operations(heap, f, g, c)

\* base.directories(releative) is called: the second loop begins.
SecondLoop(l, f, c) ==
    IF l.err # "none" THEN Stopped(l.heap, l.err)
    ELSE rename_operations(l.heap, f, Gen("directories", <<Frame(1, c.releative)>>), c)

\* The first loop's iterator answered r.
AudioLoop(r, f, c) ==
    IF r.err # "none" THEN Stopped(r.heap, r.err)
    ELSE IF r.done THEN SecondLoop(load(r.heap, f, 1, FALSE), f, c)
    ELSE YieldOrGoOn(r.heap, f, Gen("audios", r.stack), c,
                     make_rename_operation(r.item, c.audio_file_format, NoParams))

\* DirectoryBody renaming whenever the directory has any album at all.
DirectoryBody_AnyAlbum(a, s, id, f, g, c) ==
    IF a.err # "none" THEN Stopped(a.heap, a.err)
    ELSE IF Cardinality(s) < 1 THEN rename_operations(a.heap, f, g, c)
    ELSE YieldOrGoOn(a.heap, f, g, c,
                     make_rename_operation(DirectoryNode(a.heap[id].path), c.album_format,
                                           [k \in {"album"} |-> CHOOSE x \in s : TRUE]))

\* The directory's albums are a: one album renames it, else it is skipped.
DirectoryBody(a, s, id, f, g, c) ==
    IF a.err # "none" THEN Stopped(a.heap, a.err)
    ELSE IF Cardinality(s) # 1 THEN rename_operations(a.heap, f, g, c)
    ELSE YieldOrGoOn(a.heap, f, g, c,
                     make_rename_operation(DirectoryNode(a.heap[id].path), c.album_format,
                                           [k \in {"album"} |-> CHOOSE x \in s : TRUE]))

DirectoryAlbums(a, id, f, g, c) == DirectoryBody(a, Range(a.items), id, f, g, c)

\* The second loop's iterator answered r.
DirectoryLoop(r, f, c) ==
    IF r.err # "none" \/ r.done THEN Stopped(r.heap, r.err)
    ELSE DirectoryAlbums(albums(r.heap, f, r.item, FALSE), r.item, f,
                         Gen("directories", r.stack), c)

\* base.audios(releative) is called: the first loop begins.
FirstLoop(l, f, c) ==
    IF l.err # "none" THEN Stopped(l.heap, l.err)
    ELSE rename_operations(l.heap, f, Gen("audios", <<Frame(1, c.releative)>>), c)

rename_operations(heap, f, g, c) ==
    CASE g.phase = "new"         -> FirstLoop(load(heap, f, 1, FALSE), f, c)
      [] g.phase = "audios"      -> AudioLoop(Pull(heap, f, g.stack, "audios"), f, c)
      [] g.phase = "directories" -> DirectoryLoop(Pull(heap, f, g.stack, "childs"), f, c)
      [] OTHER                   -> Stopped(heap, "none")

\* CopyLoop copying every file straight into the destination root.
CopyLoop_Flat(r, c) ==
    IF r.err # "none" \/ r.done THEN Stopped(r.heap, r.err)
    ELSE Yielded(r.heap, Gen("audios", r.stack),
                 make_copy_operation(r.item, Joinpath(c.dst, Basename(r.item.path))))

\* The loop of clean_copy's operations(current): its iterator answered r.
CopyLoop(r, c) ==
    IF r.err # "none" \/ r.done THEN Stopped(r.heap, r.err)
    ELSE Yielded(r.heap, Gen("audios", r.stack),
                 make_copy_operation(r.item, c.dst \o Relative_to(r.item.path, c.path)))

CopyFirst(l, f, c) ==
    IF l.err # "none" THEN Stopped(l.heap, l.err)
    ELSE CopyLoop(Pull(l.heap, f, <<Frame(1, c.releative)>>, "audios"), c)

\* next() on clean_copy's operations(current).
clean_copy_operations(heap, f, g, c) ==
    CASE g.phase = "new"    -> CopyFirst(load(heap, f, 1, FALSE), f, c)
      [] g.phase = "audios" -> CopyLoop(Pull(heap, f, g.stack, "audios"), c)
      [] OTHER              -> Stopped(heap, "none")

\* next() on the cleanup planner, which src/main.py does not hold: the
\* specification's section 4.4 over the AudioDirectory of the code. In this
\* order: a Remove for every entry of others(recursive); a Remove for every
\* directory of directories(recursive), children before parents, that still
\* exists and has no audio of its own; the renames of the root's own audio
\* entries by the fixed template (c.audio_file_format), and of the root's
\* immediate subdirectories to the one album of the root's own audio.
RECURSIVE cleanup_operations(_, _, _, _)

CleanupYieldOrGoOn(heap, f, g, c, m) ==
    IF m.err # "none" THEN Stopped(heap, m.err)
    ELSE IF m.op # NoOperation THEN Yielded(heap, g, m.op)
    ELSE cleanup_operations(heap, f, g, c)

\* The next step begins: the root's accessor is called (its load is l).
CleanupStep(l, f, c, phase, releative) ==
    IF l.err # "none" THEN Stopped(l.heap, l.err)
    ELSE cleanup_operations(l.heap, f, Gen(phase, <<Frame(1, releative)>>), c)

\* Step 1, strip non-audio clutter: others(recursive=true) answered r.
StripLoop(r, f, c) ==
    IF r.err # "none" THEN Stopped(r.heap, r.err)
    ELSE IF r.done THEN CleanupStep(load(r.heap, f, 1, FALSE), f, c, "prune", TRUE)
    ELSE Yielded(r.heap, Gen("others", r.stack), make_remove_operation(r.item))

\* The directory exists and audio_exists(recursive=false) answered a.
PruneTest(a, id, f, g, c) ==
    IF a.err # "none" THEN Stopped(a.heap, a.err)
    ELSE IF a.result THEN cleanup_operations(a.heap, f, g, c)
    ELSE Yielded(a.heap, g, make_remove_operation(DirectoryNode(a.heap[id].path)))

\* Step 2, prune empty branches: directories(recursive=true) answered r.
PruneLoop(r, f, c) ==
    IF r.err # "none" THEN Stopped(r.heap, r.err)
    ELSE IF r.done THEN CleanupStep(load(r.heap, f, 1, FALSE), f, c, "audios", FALSE)
    ELSE IF ~Exists(f, r.heap[r.item].path)
    THEN cleanup_operations(r.heap, f, Gen("prune", r.stack), c)
    ELSE PruneTest(audio_exists(r.heap, f, r.item, FALSE), r.item, f,
                   Gen("prune", r.stack), c)

\* Step 3, the root's own audio entries: audios(recursive=false) answered r.
CleanupAudioLoop(r, f, c) ==
    IF r.err # "none" THEN Stopped(r.heap, r.err)
    ELSE IF r.done THEN CleanupStep(load(r.heap, f, 1, FALSE), f, c, "directories", FALSE)
    ELSE CleanupYieldOrGoOn(r.heap, f, Gen("audios", r.stack), c,
                            make_rename_operation(r.item, c.audio_file_format, NoParams))

\* The root's albums are a, s as a set.
CleanupDirectoryBody(a, s, id, f, g, c) ==
    IF a.err # "none" THEN Stopped(a.heap, a.err)
    ELSE IF Cardinality(s) # 1 THEN cleanup_operations(a.heap, f, g, c)
    ELSE CleanupYieldOrGoOn(a.heap, f, g, c,
             make_rename_operation(DirectoryNode(a.heap[id].path), c.album_format,
                                   [k \in {"album"} |-> CHOOSE x \in s : TRUE]))

CleanupDirectoryAlbums(a, id, f, g, c) == CleanupDirectoryBody(a, Range(a.items), id, f, g, c)

\* Step 3, the root's immediate subdirectories: directories(recursive=false)
\* answered r.
CleanupDirectoryLoop(r, f, c) ==
    IF r.err # "none" \/ r.done THEN Stopped(r.heap, r.err)
    ELSE CleanupDirectoryAlbums(albums(r.heap, f, 1, FALSE), r.item, f,
                                Gen("directories", r.stack), c)

cleanup_operations(heap, f, g, c) ==
    CASE g.phase = "new"         -> CleanupStep(load(heap, f, 1, FALSE), f, c, "others", TRUE)
      [] g.phase = "others"      -> StripLoop(Pull(heap, f, g.stack, "other"), f, c)
      [] g.phase = "prune"       -> PruneLoop(Pull(heap, f, g.stack, "childs"), f, c)
      [] g.phase = "audios"      -> CleanupAudioLoop(Pull(heap, f, g.stack, "audios"), f, c)
      [] g.phase = "directories" -> CleanupDirectoryLoop(Pull(heap, f, g.stack, "childs"), f, c)
      [] OTHER                   -> Stopped(heap, "none")

operations(heap, f, g, c) ==
    CASE c.name = "rename"  -> rename_operations(heap, f, g, c)
      [] c.name = "cleanup" -> cleanup_operations(heap, f, g, c)
      [] OTHER              -> clean_copy_operations(heap, f, g, c)

\* -------------------------------------------------------------------------
\* The inputs: command lines and initial trees
\* -------------------------------------------------------------------------

\* "{tracknumber:>02}-{title}{ext}"
DefaultAudioFormat ==
    <<Field("tracknumber", 2), Lit(<<"-">>), Field("title", 0), Field("ext", 0)>>

\* "{album}"
DefaultAlbumFormat == <<Field("album", 0)>>

\* "track.mp3": a format without replacement fields
LiteralFormat == <<Lit(<<"track", ".mp3">>)>>

EmptyFormat == <<>>

Lib == <<<<"lib">>>>

Out == <<<<"out">>>>

Command(name, path, dst, audio_file_format, album_format, releative, dry_run) ==
    [name |-> name, path |-> path, dst |-> dst, audio_file_format |-> audio_file_format,
     album_format |-> album_format, releative |-> releative, dry_run |-> dry_run]

Commands ==
    {Command("rename", Lib, <<>>, a, b, r, d) :
        a \in {DefaultAudioFormat, LiteralFormat, EmptyFormat},
        b \in {DefaultAlbumFormat, EmptyFormat}, r \in BOOLEAN, d \in BOOLEAN}
    \cup
    {Command("clean_copy", Lib, Out, EmptyFormat, EmptyFormat, r, d) :
        r \in BOOLEAN, d \in BOOLEAN}

Tag(album, title, tracknumber, artist) ==
    [k \in TagKeys |-> CASE k = "album" -> album
                         [] k = "title" -> title
                         [] k = "tracknumber" -> tracknumber
                         [] k = "artist" -> artist
                         [] OTHER -> None]

TagSong == Tag(<<"Greatest">>, <<"Song">>, <<"1">>, <<"ArtistA">>)

TagTune == Tag(<<"Best">>, <<"Tune">>, <<"1", "2">>, <<"ArtistA">>)

TagBare == Tag(None, None, None, <<"ArtistA">>)

\* The files an initial tree is made of: a name and what mutagen reads.
FilePool ==
    { [name |-> <<"0", "1", " ", "Song", ".mp3">>, tag |-> TagSong],
      [name |-> <<"0", "1", "-", "Song", ".mp3">>, tag |-> TagSong],
      [name |-> <<"t", ".mp3">>, tag |-> TagTune],
      [name |-> <<"u", ".mp3">>, tag |-> TagBare],
      [name |-> <<"list", ".m3u">>, tag |-> NoTag],
      [name |-> <<"cover", ".jpg">>, tag |-> NoTag] }

\* The directories an initial tree is made of.
DirPool ==
    { Joinpath(Lib, <<"ArtistA">>), Joinpath(Lib, <<"Greatest">>),
      Joinpath(Joinpath(Lib, <<"ArtistA">>), <<"Disc">>) }

\* Tree t with entry e added at p, at any place of its parent's listing.
Place(t, p, e) == {Link(t, p, e, i) : i \in Slots(t, p)}

\* The trees one more entry away from tree t, the entry being a directory
\* of dirs or a file of files.
GrowFrom(t, dirs, files) ==
    UNION { Place(t, p, DirEntry(<<>>)) :
              p \in {q \in dirs : IsDir(t, Parent(q)) /\ ~Exists(t, q)} }
    \cup
    UNION { Place(t, Joinpath(dx[1], dx[2].name), FileEntry(dx[2].tag)) :
              dx \in {ey \in {q \in DOMAIN t : t[q].kind = "dir"} \X files :
                        ~Exists(t, Joinpath(ey[1], ey[2].name))} }

Grow(t) == GrowFrom(t, DirPool, FilePool)

\* The trees of at most n entries below the root.
RECURSIVE TreesFrom(_, _, _)
TreesFrom(n, dirs, files) ==
    IF n = 0 THEN {[p \in {Lib} |-> DirEntry(<<>>)]}
    ELSE LET s == TreesFrom(n - 1, dirs, files)
         IN s \cup UNION {GrowFrom(t, dirs, files) : t \in s}

Trees(n) == TreesFrom(n, DirPool, FilePool)

\* What the destination of a clean-copy may hold before the run: nothing,
\* an empty directory, a directory where a file of the source is, or a file
\* where a directory of the source is.
DstTrees ==
    { [p \in {} |-> DirEntry(<<>>)],
      [p \in {Out} |-> DirEntry(<<>>)],
      [p \in {Out, Joinpath(Out, <<"t", ".mp3">>)} |->
          IF p = Out THEN DirEntry(<<<<"t", ".mp3">>>>) ELSE DirEntry(<<>>)],
      [p \in {Out, Joinpath(Out, <<"ArtistA">>)} |->
          IF p = Out THEN DirEntry(<<<<"ArtistA">>>>) ELSE FileEntry(NoTag)] }

\* The destination side of the initial filesystem of command line c.
DstOf(c) == IF c.name = "clean_copy" THEN DstTrees ELSE {[p \in {} |-> DirEntry(<<>>)]}

\* -------------------------------------------------------------------------
\* The commands and the executor
\* -------------------------------------------------------------------------

\* What ended the run: the exception and where it was raised, in the
\* planner ("ops") or in Operation.execute ("execute").
Error(exc, at) == [exc |-> exc, at |-> at]

NoError == Error("none", "none")

Init ==
    /\ \E t \in Trees(MaxEntries) : \E c \in Commands : \E d \in DstOf(c) :
          cmd = c /\ fs = t @@ d /\ fs0 = t @@ d
    /\ objs = <<>>
    /\ pc = "start"
    /\ gen = NewGen
    /\ cur = NoOperation
    /\ table = <<>>
    /\ yielded = <<>>
    /\ executed = <<>>
    /\ error = NoError
    /\ calls = <<>>

\* rename rejecting an empty audio-file format only.
rename_AudioFormatOnly ==
    /\ pc = "start"
    /\ cmd.name = "rename"
    /\ IF cmd.audio_file_format = EmptyFormat
       THEN pc' = "done" /\ UNCHANGED objs
       ELSE pc' = "next" /\ objs' = <<AudioDirectory(cmd.path)>>
    /\ UNCHANGED <<fs, cmd, gen, cur, table, yielded, executed, error, fs0, calls>>

\* The rename command up to the call of execute_operations: an empty format
\* is reported and the command returns.
rename ==
    /\ pc = "start"
    /\ cmd.name = "rename"
    /\ IF cmd.audio_file_format = EmptyFormat \/ cmd.album_format = EmptyFormat
       THEN pc' = "done" /\ UNCHANGED objs
       ELSE pc' = "next" /\ objs' = <<AudioDirectory(cmd.path)>>
    /\ UNCHANGED <<fs, cmd, gen, cur, table, yielded, executed, error, fs0, calls>>

\* The clean-copy command up to the call of execute_operations.
clean_copy ==
    /\ pc = "start"
    /\ cmd.name = "clean_copy"
    /\ pc' = "next"
    /\ objs' = <<AudioDirectory(cmd.path)>>
    /\ UNCHANGED <<fs, cmd, gen, cur, table, yielded, executed, error, fs0, calls>>

Resumed(r) ==
    /\ objs' = r.heap
    /\ gen' = r.gen
    /\ IF r.err # "none"
       THEN pc' = "raised" /\ error' = Error(r.err, "ops") /\ UNCHANGED <<cur, yielded>>
       ELSE IF r.done THEN pc' = "done" /\ UNCHANGED <<cur, yielded, error>>
       ELSE pc' = "show" /\ cur' = r.op /\ yielded' = Append(yielded, r.op)
            /\ UNCHANGED error

\* execute_operations, "for op in ops": the planner runs to its next yield.
Request ==
    /\ pc = "next"
    /\ cmd.name \in {"rename", "clean_copy", "cleanup"}
    /\ Resumed(operations(objs, fs, gen, cmd))
    /\ UNCHANGED <<fs, cmd, table, executed, fs0, calls>>

\* AddRow going back for the next operation before this one is executed.
AddRow_Buffering ==
    /\ pc = "show"
    /\ table' = Append(table, <<cur.op, cur.src, cur.dst>>)
    /\ pc' = "next"
    /\ UNCHANGED <<fs, objs, cmd, gen, cur, yielded, executed, error, fs0, calls>>

\* execute_operations, table.add_row(...)
AddRow ==
    /\ pc = "show"
    /\ table' = Append(table, <<cur.op, cur.src, cur.dst>>)
    /\ pc' = "exec"
    /\ UNCHANGED <<fs, objs, cmd, gen, cur, yielded, executed, error, fs0, calls>>

\* Execute catching the exception and going on with the loop.
Execute_GoOn ==
    /\ pc = "exec"
    /\ \E out \in execute(fs, cur, cmd.dry_run) :
          /\ fs' = out.fs
          /\ error' = IF out.err = "none" THEN error ELSE Error(out.err, "execute")
          /\ pc' = "next"
    /\ executed' = Append(executed, cur)
    /\ UNCHANGED <<objs, cmd, gen, cur, table, yielded, fs0, calls>>

\* execute_operations, op.execute(dry_run=dry_run): an exception ends the loop.
Execute ==
    /\ pc = "exec"
    /\ \E out \in execute(fs, cur, cmd.dry_run) :
          /\ fs' = out.fs
          /\ error' = IF out.err = "none" THEN error ELSE Error(out.err, "execute")
          /\ pc' = IF out.err = "none" THEN "next" ELSE "raised"
    /\ executed' = Append(executed, cur)
    /\ UNCHANGED <<objs, cmd, gen, cur, table, yielded, fs0, calls>>

Next == rename \/ clean_copy \/ Request \/ AddRow \/ Execute

Spec == Init /\ [][Next]_vars

\* -------------------------------------------------------------------------
\* The commands on small trees, and execute_operations over any iterator
\* of operations
\* -------------------------------------------------------------------------

\* The most entries of a tree below its root, and the most operations an
\* iterator gives, where trees and iterators are enumerated freely.
SmallEntries == 1

MaxOps == 2

\* Where the operations of such an iterator lead: a new name in the source
\* tree, and one under a directory that is not there.
BatchDsts == {Joinpath(Lib, <<"x", ".mp3">>), Joinpath(Joinpath(Out, <<"d">>), <<"x", ".mp3">>)}

\* The operations of the three kinds on the paths of tree f.
BatchOps(f) ==
    {Operation("Remove", p, None) : p \in DOMAIN f}
    \cup {Operation("Rename", p, q) : p \in DOMAIN f \ {Lib}, q \in BatchDsts}
    \cup {Operation("Copy", p, q) : p \in {r \in DOMAIN f : IsFile(f, r)}, q \in BatchDsts}

BatchCommands ==
    {Command("batch", Lib, <<>>, EmptyFormat, EmptyFormat, FALSE, d) : d \in BOOLEAN}

InitBatch ==
    /\ \E t \in Trees(SmallEntries) : \E c \in Commands \cup BatchCommands : \E d \in DstOf(c) :
          /\ cmd = c /\ fs = t @@ d /\ fs0 = t @@ d
          /\ pc = IF c.name = "batch" THEN "next" ELSE "start"
    /\ objs = <<>>
    /\ gen = NewGen
    /\ cur = NoOperation
    /\ table = <<>>
    /\ yielded = <<>>
    /\ executed = <<>>
    /\ error = NoError
    /\ calls = <<>>

\* execute_operations, "for op in ops", ops being any iterator: it gives an
\* operation or it is exhausted.
Iterate ==
    /\ pc = "next"
    /\ cmd.name = "batch"
    /\ \/ /\ Len(yielded) < MaxOps
          /\ \E o \in BatchOps(fs) :
                pc' = "show" /\ cur' = o /\ yielded' = Append(yielded, o)
       \/ pc' = "done" /\ UNCHANGED <<cur, yielded>>
    /\ UNCHANGED <<fs, objs, cmd, gen, table, executed, error, fs0, calls>>

NextBatch == rename \/ clean_copy \/ Request \/ Iterate \/ AddRow \/ Execute

SpecBatch == InitBatch /\ [][NextBatch]_vars

\* -------------------------------------------------------------------------
\* The rename command, not a dry run, on trees of nested album directories
\* -------------------------------------------------------------------------

\* The most entries of such a tree below its root.
RenameEntries == 4

RenameDirs ==
    { Joinpath(Lib, <<"ArtistA">>), Joinpath(Joinpath(Lib, <<"ArtistA">>), <<"Disc">>),
      Joinpath(Lib, <<"Greatest">>) }

RenameFiles ==
    { [name |-> <<"0", "1", " ", "Song", ".mp3">>, tag |-> TagSong],
      [name |-> <<"t", ".mp3">>, tag |-> TagTune] }

\* "rename <path> [--releative]" with the default formats.
RenameCommands ==
    {Command("rename", Lib, <<>>, DefaultAudioFormat, DefaultAlbumFormat, r, FALSE) :
        r \in BOOLEAN}

InitRename ==
    /\ \E t \in TreesFrom(RenameEntries, RenameDirs, RenameFiles) : \E c \in RenameCommands :
          cmd = c /\ fs = t /\ fs0 = t
    /\ objs = <<>>
    /\ pc = "start"
    /\ gen = NewGen
    /\ cur = NoOperation
    /\ table = <<>>
    /\ yielded = <<>>
    /\ executed = <<>>
    /\ error = NoError
    /\ calls = <<>>

NextRename == rename \/ Request \/ AddRow \/ Execute

SpecRename == InitRename /\ [][NextRename]_vars

\* -------------------------------------------------------------------------
\* The cleanup command
\* -------------------------------------------------------------------------

\* "cleanup <path> [--dry-run]": the formats are the fixed ones.
CleanupCommands ==
    {Command("cleanup", Lib, <<>>, DefaultAudioFormat, DefaultAlbumFormat, TRUE, d) :
        d \in BOOLEAN}

InitCleanup ==
    /\ \E t \in Trees(MaxEntries) : \E c \in CleanupCommands :
          cmd = c /\ fs = t /\ fs0 = t
    /\ objs = <<>>
    /\ pc = "start"
    /\ gen = NewGen
    /\ cur = NoOperation
    /\ table = <<>>
    /\ yielded = <<>>
    /\ executed = <<>>
    /\ error = NoError
    /\ calls = <<>>

\* The cleanup command up to the run of its planner through the executor.
cleanup ==
    /\ pc = "start"
    /\ cmd.name = "cleanup"
    /\ pc' = "next"
    /\ objs' = <<AudioDirectory(cmd.path)>>
    /\ UNCHANGED <<fs, cmd, gen, cur, table, yielded, executed, error, fs0, calls>>

NextCleanup == cleanup \/ Request \/ AddRow \/ Execute

SpecCleanup == InitCleanup /\ [][NextCleanup]_vars

\* -------------------------------------------------------------------------
\* AudioDirectory objects called in any order while the filesystem changes
\* -------------------------------------------------------------------------

\* The most calls made on the objects.
MaxCalls == 2

Accessors == {"audios", "others", "directories"}

\* What is kept of the calls made, none of them load(reload=True): their
\* number, and for each object and accessor called without releative what it
\* yielded at the first call made once the object was scanned, what it
\* yielded last, and how many such calls there were.
NoCalls == [n |-> 0, seen |-> <<>>]

Seen(first, last, times) == [first |-> first, last |-> last, times |-> times]

Observed(seen, key, items) ==
    IF key \in DOMAIN seen
    THEN [seen EXCEPT ![key] = Seen(@.first, items, @.times + 1)]
    ELSE (key :> Seen(items, items, 1)) @@ seen

\* What the tree is made of here: an audio file, another file, a directory.
LoadFiles ==
    { [name |-> <<"t", ".mp3">>, tag |-> TagTune],
      [name |-> <<"cover", ".jpg">>, tag |-> NoTag] }

LoadDirs == {Joinpath(Lib, <<"ArtistA">>)}

InitLoad ==
    /\ fs \in TreesFrom(SmallEntries, LoadDirs, LoadFiles)
    /\ fs0 = fs
    /\ objs = <<AudioDirectory(Lib)>>
    /\ cmd = Command("load", Lib, <<>>, EmptyFormat, EmptyFormat, FALSE, FALSE)
    /\ pc = "idle"
    /\ gen = NewGen
    /\ cur = NoOperation
    /\ table = <<>>
    /\ yielded = <<>>
    /\ executed = <<>>
    /\ error = NoError
    /\ calls = NoCalls

Called(op, id, releative, r, items) ==
    /\ objs' = r.heap
    /\ calls' = [n |-> calls.n + 1,
                 seen |-> IF op \in Accessors /\ ~releative /\ r.heap[id].nscan >= 1
                          THEN Observed(calls.seen, <<id, op>>, items)
                          ELSE calls.seen]

\* D.load() on any object D.
CallLoad ==
    /\ calls.n < MaxCalls
    /\ \E id \in 1..Len(objs) :
          Called("load", id, FALSE, load(objs, fs, id, FALSE), <<>>)
    /\ UNCHANGED <<fs, cmd, pc, gen, cur, table, yielded, executed, error, fs0>>

CalledAccessor(op, id, releative, r) == Called(op, id, releative, r, r.items)

\* list(D.audios(releative)) on any object D.
CallAudios ==
    /\ calls.n < MaxCalls
    /\ \E id \in 1..Len(objs) : \E releative \in BOOLEAN :
          CalledAccessor("audios", id, releative, audios(objs, fs, id, releative))
    /\ UNCHANGED <<fs, cmd, pc, gen, cur, table, yielded, executed, error, fs0>>

\* list(D.others(releative)) on any object D.
CallOthers ==
    /\ calls.n < MaxCalls
    /\ \E id \in 1..Len(objs) : \E releative \in BOOLEAN :
          CalledAccessor("others", id, releative, others(objs, fs, id, releative))
    /\ UNCHANGED <<fs, cmd, pc, gen, cur, table, yielded, executed, error, fs0>>

\* list(D.directories(releative)) on any object D.
CallDirectories ==
    /\ calls.n < MaxCalls
    /\ \E id \in 1..Len(objs) : \E releative \in BOOLEAN :
          CalledAccessor("directories", id, releative, directories(objs, fs, id, releative))
    /\ UNCHANGED <<fs, cmd, pc, gen, cur, table, yielded, executed, error, fs0>>

\* Between two calls something else adds an entry to the tree: one of the
\* pool, the root when it is gone, or a file where a directory was.
EnvAdd ==
    /\ Cardinality(DOMAIN fs) <= SmallEntries
    /\ IF Exists(fs, Lib)
       THEN fs' \in GrowFrom(fs, LoadDirs, LoadFiles) \cup
                    (IF Exists(fs, Joinpath(Lib, <<"ArtistA">>)) THEN {}
                     ELSE Place(fs, Joinpath(Lib, <<"ArtistA">>), FileEntry(NoTag)))
       ELSE fs' = [p \in {Lib} |-> DirEntry(<<>>)]
    /\ UNCHANGED <<objs, cmd, pc, gen, cur, table, yielded, executed, error, fs0, calls>>

\* Between two calls something else removes a file or an empty directory.
EnvRemove ==
    /\ \E p \in DOMAIN fs :
          /\ IsFile(fs, p) \/ IsEmptyDir(fs, p)
          /\ fs' = Unlink(fs, p)
    /\ UNCHANGED <<objs, cmd, pc, gen, cur, table, yielded, executed, error, fs0, calls>>

NextLoad == CallLoad \/ CallAudios \/ CallOthers \/ CallDirectories \/ EnvAdd \/ EnvRemove

SpecLoad == InitLoad /\ [][NextLoad]_vars

\* -------------------------------------------------------------------------
\* load() and load(reload=True) called in any order while the filesystem
\* changes
\* -------------------------------------------------------------------------

\* The call scanned the object's directory without raising.
HasScanned(id, r) == r.err = "none" /\ r.heap[id].nscan > objs[id].nscan

\* What is kept of these calls: their number, and for each object the
\* listing of its directory at its most recent scan.
LoadCalled(id, r) ==
    /\ objs' = r.heap
    /\ calls' = [n |-> calls.n + 1,
                 seen |-> IF HasScanned(id, r)
                          THEN [k \in DOMAIN calls.seen \cup {id} |->
                                   IF k = id THEN Iterdir(fs, objs[id].path)
                                   ELSE calls.seen[k]]
                          ELSE calls.seen]

\* D.load() on any object D.
CallLoadOnce ==
    /\ calls.n < MaxCalls
    /\ \E id \in 1..Len(objs) : LoadCalled(id, load(objs, fs, id, FALSE))
    /\ UNCHANGED <<fs, cmd, pc, gen, cur, table, yielded, executed, error, fs0>>

\* D.load(reload=True) on any object D.
CallReload ==
    /\ calls.n < MaxCalls
    /\ \E id \in 1..Len(objs) : LoadCalled(id, load(objs, fs, id, TRUE))
    /\ UNCHANGED <<fs, cmd, pc, gen, cur, table, yielded, executed, error, fs0>>

NextReload == CallLoadOnce \/ CallReload \/ EnvAdd \/ EnvRemove

SpecReload == InitLoad /\ [][NextReload]_vars

\* -------------------------------------------------------------------------
\* One call on a fresh AudioDirectory of the root of any tree
\* -------------------------------------------------------------------------

\* The call made: the method, its releative argument, the paths of what it
\* yielded in order, and what it returned where it returns a boolean.
Walk(op, releative, items, result) ==
    [op |-> op, releative |-> releative, items |-> items, result |-> result]

NoWalk == Walk("none", FALSE, <<>>, FALSE)

InitWalk ==
    /\ fs \in Trees(MaxEntries)
    /\ fs0 = fs
    /\ objs = <<AudioDirectory(Lib)>>
    /\ cmd = Command("walk", Lib, <<>>, EmptyFormat, EmptyFormat, FALSE, FALSE)
    /\ pc = "idle"
    /\ gen = NewGen
    /\ cur = NoOperation
    /\ table = <<>>
    /\ yielded = <<>>
    /\ executed = <<>>
    /\ error = NoError
    /\ calls = NoWalk

PathsOfNodes(items) == [i \in 1..Len(items) |-> items[i].path]

PathsOfObjects(heap, items) == [i \in 1..Len(items) |-> heap[items[i]].path]

Walked(heap, w) ==
    /\ pc = "idle"
    /\ pc' = "called"
    /\ objs' = heap
    /\ calls' = w
    /\ UNCHANGED <<fs, cmd, gen, cur, table, yielded, executed, error, fs0>>

WalkedNodes(op, releative, r) ==
    Walked(r.heap, Walk(op, releative, PathsOfNodes(r.items), FALSE))

WalkedObjects(op, releative, r) ==
    Walked(r.heap, Walk(op, releative, PathsOfObjects(r.heap, r.items), FALSE))

WalkedAnswer(op, releative, a) == Walked(a.heap, Walk(op, releative, <<>>, a.result))

\* list(base.audios(releative))
WalkAudios ==
    \E releative \in BOOLEAN :
        WalkedNodes("audios", releative, audios(objs, fs, 1, releative))

\* list(base.others(releative))
WalkOthers ==
    \E releative \in BOOLEAN :
        WalkedNodes("others", releative, others(objs, fs, 1, releative))

\* list(base.directories(releative))
WalkDirectories ==
    \E releative \in BOOLEAN :
        WalkedObjects("directories", releative, directories(objs, fs, 1, releative))

\* base.audio_exists(releative)
WalkAudioExists ==
    \E releative \in BOOLEAN :
        WalkedAnswer("audio_exists", releative, audio_exists(objs, fs, 1, releative))

NextWalk == WalkAudios \/ WalkOthers \/ WalkDirectories \/ WalkAudioExists

SpecWalk == InitWalk /\ [][NextWalk]_vars

\* -------------------------------------------------------------------------
\* What the claims speak of
\* -------------------------------------------------------------------------

\* The file nodes the loaded AudioDirectory objects hold as audio.
AudioNodes == UNION {Range(objs[i].audios) : i \in 1..Len(objs)}

\* The album values of an AudioDirectory's own AudioMediaFile children.
AlbumSet(o) ==
    {a.tag["album"] : a \in {b \in Range(o.audios) : b.cls = "AudioMediaFile"}} \ {None}

\* The files of tree f that a scan classifies as audio-type, as media and as
\* playlist.
IsAudioFile(f, p) == IsFile(f, p) /\ IsAudioMime(Guess_type(p))

IsMediaFile(f, p) == IsAudioFile(f, p) /\ \E k \in TagKeys : f[p].tag[k] # None

IsPlaylistFile(f, p) == IsAudioFile(f, p) /\ \A k \in TagKeys : f[p].tag[k] = None

\* The paths of tree f that a walk from root covers: the root's own entries,
\* or with releative everything below it.
Reach(f, root, releative) ==
    {p \in DOMAIN f : IF releative THEN IsPrefix(root, p) /\ p # root ELSE Parent(p) = root}

\* The album values of the media files directly in directory p of tree f.
AlbumsIn(f, p) ==
    {f[q].tag["album"] : q \in {r \in DOMAIN f : Parent(r) = p /\ IsMediaFile(f, r)}} \ {None}

EmptyFormatGiven ==
    cmd.name = "rename"
    /\ (cmd.audio_file_format = EmptyFormat \/ cmd.album_format = EmptyFormat)

\* The filesystems that executing ops in order, each without error, can leave.
RECURSIVE Replay(_, _)
Replay(f, ops) ==
    IF ops = <<>> THEN {f}
    ELSE UNION { Replay(o.fs, Tail(ops)) :
                   o \in {x \in execute(f, Head(ops), FALSE) : x.err = "none"} }

\* -------------------------------------------------------------------------
\* C1
\* -------------------------------------------------------------------------

\* What executing o for real could do to tree f.
WouldChange(f, o) == \E out \in execute(f, o, FALSE) : out.fs # f

\* C1: on every filesystem reached, execute(dry_run=True) of an operation
\* of any kind returns with the filesystem as it was; and a run with
\* dry_run, be it rename, clean-copy or the executor over any operations,
\* has at every moment the filesystem it started with and has raised nothing
\* from execute.
C1_DryRunChangesNothing ==
    /\ \A o \in BatchOps(fs) : execute(fs, o, TRUE) = {Outcome(fs, "none")}
    /\ cmd.dry_run => fs = fs0 /\ error.at # "execute"

\* A dry run has gone through a Copy and an operation of another kind, each
\* of which would have changed the filesystem.
C1_Witness ==
    /\ cmd.dry_run
    /\ pc = "done"
    /\ Len(executed) = 2
    /\ executed[1].op = "Copy"
    /\ executed[2].op # "Copy"
    /\ WouldChange(fs, executed[1])
    /\ WouldChange(fs, executed[2])

\* -------------------------------------------------------------------------
\* C2
\* -------------------------------------------------------------------------

\* C2: whatever load(), audios(), others() and directories() calls were
\* made on the AudioDirectory objects, none with reload, and whatever
\* happened to the filesystem between them, every object has listed its
\* directory at most once, and each accessor yielded at its last call what
\* it yielded at the first call made once the directory was scanned.
C2_ScannedOnceAndStable ==
    \A id \in 1..Len(objs) :
        /\ objs[id].nscan <= 1
        /\ \A op \in Accessors :
              <<id, op>> \in DOMAIN calls.seen =>
                  calls.seen[<<id, op>>].last = calls.seen[<<id, op>>].first

\* audios() of the root object has yielded a file twice, the file being gone
\* from the directory by now and another entry having appeared there.
C2_Witness ==
    /\ <<1, "audios">> \in DOMAIN calls.seen
    /\ calls.seen[<<1, "audios">>].times = 2
    /\ Len(calls.seen[<<1, "audios">>].last) = 1
    /\ ~Exists(fs, calls.seen[<<1, "audios">>].last[1].path)
    /\ \E p \in DOMAIN fs : Parent(p) = Lib
    /\ objs[1].nscan = 1

\* -------------------------------------------------------------------------
\* C3
\* -------------------------------------------------------------------------

\* C3: the executor shows and executes the operations in the order the
\* planner yields them, one at a time: the planner is asked for the next
\* operation only when every operation it has yielded has been shown and
\* executed, and at most one yielded operation is ever waiting.
C3_OneAtATimeInOrder ==
    /\ \A i \in 1..Len(table) : table[i] = <<yielded[i].op, yielded[i].src, yielded[i].dst>>
    /\ pc \in {"next", "done", "raised"} => executed = yielded /\ Len(table) = Len(yielded)
    /\ pc = "show" =>
          /\ executed = SubSeq(yielded, 1, Len(yielded) - 1)
          /\ Len(yielded) = Len(executed) + 1
          /\ Len(table) = Len(executed)
          /\ cur = yielded[Len(yielded)]
    /\ pc = "exec" =>
          /\ executed = SubSeq(yielded, 1, Len(yielded) - 1)
          /\ Len(yielded) = Len(executed) + 1
          /\ Len(table) = Len(yielded)
          /\ cur = yielded[Len(yielded)]

\* Two different operations have been executed, one after the other, and
\* the planner is about to be asked for a third.
C3_Witness ==
    /\ pc = "next"
    /\ ~cmd.dry_run
    /\ Len(executed) = 2
    /\ executed[1] # executed[2]
    /\ fs # fs0

\* -------------------------------------------------------------------------
\* C4
\* -------------------------------------------------------------------------

\* C4: when execute() raises on operation k, the loop has ended with that
\* exception and takes no further step, nothing was planned after k, and the
\* filesystem is the one operations 1..k-1 left, followed by whatever the
\* failing call did before it raised: nothing is rolled back or retried.
C4_StopsAtFirstFailure ==
    error.at = "execute" =>
        /\ pc = "raised"
        /\ ~ENABLED Next
        /\ error.exc # "none"
        /\ executed = yielded
        /\ Len(executed) >= 1
        /\ \E g \in Replay(fs0, SubSeq(executed, 1, Len(executed) - 1)) :
              \E o \in execute(g, executed[Len(executed)], cmd.dry_run) :
                  o.err = error.exc /\ o.fs = fs

\* The second operation failed with the first one's effect in place, and the
\* planner still had an operation to give.
C4_Witness ==
    /\ error.at = "execute"
    /\ Len(executed) = 2
    /\ fs # fs0
    /\ ~operations(objs, fs, gen, cmd).done

\* -------------------------------------------------------------------------
\* C5
\* -------------------------------------------------------------------------

\* C5: in a rename run every operation yielded for a directory is a Rename
\* of a directory whose own AudioMediaFile children have exactly one album
\* value between them, in the AudioDirectory's collections and in the tree
\* the run started with alike; a directory with no album or with two or more
\* gets no operation.
C5_DirectoryRenameNeedsOneAlbum ==
    cmd.name = "rename" =>
        \A i \in 1..Len(yielded) : \A id \in 1..Len(objs) :
            yielded[i].src = objs[id].path =>
                /\ yielded[i].op = "Rename"
                /\ Cardinality(AlbumSet(objs[id])) = 1
                /\ Cardinality(AlbumsIn(fs0, objs[id].path)) = 1

\* A directory has been renamed after its single album.
C5_Witness ==
    /\ cmd.name = "rename"
    /\ pc = "done"
    /\ \E i \in 1..Len(yielded) : \E id \in 1..Len(objs) :
          /\ yielded[i].src = objs[id].path
          /\ yielded[i].dst = Joinpath(Parent(objs[id].path), <<"Greatest">>)
          /\ AlbumSet(objs[id]) = {<<"Greatest">>}

\* -------------------------------------------------------------------------
\* C6
\* -------------------------------------------------------------------------

\* C6, as claimed: for every PlaylistFile the rename run reaches and every
\* format, make_rename_operation returns no Operation (and does not raise).
C6_PlaylistNeverRenamed ==
    cmd.name = "rename" =>
        \A a \in {b \in AudioNodes : b.cls = "PlaylistFile"} :
            \A format \in {DefaultAudioFormat, LiteralFormat} :
                make_rename_operation(a, format, NoParams) = Planned(NoOperation)

\* -------------------------------------------------------------------------
\* C7
\* -------------------------------------------------------------------------

\* What the claim has make_rename_operation return, rendered being the
\* name the format gives.
RenameClaimed(node, new_path) ==
    IF new_path = node.path THEN Planned(NoOperation)
    ELSE Planned(Operation("Rename", node.path, new_path))

RenameAsClaimed(node, rendered, got) ==
    rendered.err = "none" =>
        got = RenameClaimed(node, Joinname(Parent(node.path), rendered.val))

\* C7: for every audio-type file and every directory that was loaded, and
\* every format and parameters for which the name renders,
\* make_rename_operation returns no Operation when the parent of the node's
\* path joined with the rendered name is the node's path, and otherwise the
\* Rename from the node's path to that joined path.
C7_RenameUnlessSamePath ==
    /\ \A node \in AudioNodes :
          \A format \in {DefaultAudioFormat, LiteralFormat, EmptyFormat} :
              RenameAsClaimed(node, Format_map(format, NoParams, node),
                              make_rename_operation(node, format, NoParams))
    /\ \A id \in 1..Len(objs) :
          \A format \in {DefaultAlbumFormat, LiteralFormat} :
              \A album \in {<<"Greatest">>, <<"ArtistA">>} :
                  RenameAsClaimed(DirectoryNode(objs[id].path),
                      Format_map(format, [k \in {"album"} |-> album],
                                 DirectoryNode(objs[id].path)),
                      make_rename_operation(DirectoryNode(objs[id].path), format,
                                            [k \in {"album"} |-> album]))

\* A rename run has ended with nothing planned for a file whose name is
\* the one its tags render, and a Rename made of another format for the
\* same file differs from no Operation.
C7_Witness ==
    /\ cmd.name = "rename"
    /\ pc = "done"
    /\ \E a \in AudioNodes :
          /\ Format_map(cmd.audio_file_format, NoParams, a).err = "none"
          /\ Joinname(Parent(a.path), Format_map(cmd.audio_file_format, NoParams, a).val) = a.path
          /\ \A i \in 1..Len(yielded) : yielded[i].src # a.path
          /\ make_rename_operation(a, LiteralFormat, NoParams) =
                Planned(Operation("Rename", a.path, Joinname(Parent(a.path), <<"track", ".mp3">>)))

\* -------------------------------------------------------------------------
\* C8
\* -------------------------------------------------------------------------

\* "{album}/{tracknumber:>02}-{title}{ext}" rendered for node a below the
\* destination root: the album directory, then the file name.
TemplateTarget(a) ==
    cmd.dst \o <<Format_map(DefaultAlbumFormat, NoParams, a).val,
                 Format_map(DefaultAudioFormat, NoParams, a).val>>

\* C8, as claimed: the Copy that clean-copy yields for an AudioMediaFile has
\* the destination root joined with the rendered album and file name as its
\* destination.
C8_CopyToTemplatePath ==
    cmd.name = "clean_copy" =>
        \A i \in 1..Len(yielded) : \A a \in AudioNodes :
            ( /\ a.cls = "AudioMediaFile"
              /\ yielded[i].src = a.path
              /\ Format_map(DefaultAlbumFormat, NoParams, a).err = "none"
              /\ Format_map(DefaultAudioFormat, NoParams, a).err = "none" )
            => yielded[i].dst = TemplateTarget(a)

\* C8, amended: the Copy that clean-copy yields for an AudioMediaFile goes
\* from the file's path to the destination root joined with the file's path
\* relative to the source root; every media file the walk covers has got its
\* Copy when the run ends, and after a run that really copied the file is at
\* that path of the destination tree, with the tags of the source, unless a
\* directory stood at that path before the run.
C8_CopyToRelativePath ==
    cmd.name = "clean_copy" =>
        /\ \A i \in 1..Len(yielded) :
              IsMediaFile(fs0, yielded[i].src) =>
                  yielded[i] = Operation("Copy", yielded[i].src,
                                   cmd.dst \o Relative_to(yielded[i].src, cmd.path))
        /\ pc = "done" =>
              \A p \in Reach(fs0, cmd.path, cmd.releative) :
                  IsMediaFile(fs0, p) =>
                      /\ \E i \in 1..Len(yielded) : yielded[i].src = p
                      /\ ~cmd.dry_run /\ ~IsDir(fs0, cmd.dst \o Relative_to(p, cmd.path)) =>
                            /\ IsFile(fs, cmd.dst \o Relative_to(p, cmd.path))
                            /\ fs[cmd.dst \o Relative_to(p, cmd.path)].tag = fs0[p].tag

\* A clean-copy has ended having copied a media file of a subdirectory.
C8_Witness ==
    /\ cmd.name = "clean_copy"
    /\ pc = "done"
    /\ ~cmd.dry_run
    /\ \E i \in 1..Len(executed) :
          /\ IsMediaFile(fs0, executed[i].src)
          /\ Len(executed[i].src) = 3
          /\ IsFile(fs, executed[i].dst)
          /\ executed[i].dst # TemplateTarget(AudioMediaFile(executed[i].src, AudioMpeg,
                                                             fs0[executed[i].src].tag))

\* -------------------------------------------------------------------------
\* C9
\* -------------------------------------------------------------------------

\* C9: every operation clean-copy yields is a Copy of an audio-type file the
\* walk covers (never of another file or of a directory), no file gets two,
\* the Copy of a playlist goes to the destination root joined with the
\* playlist's path relative to the source root, and when the run ends every
\* playlist the walk covers has got exactly one.
C9_PlaylistCopiedInPlace ==
    cmd.name = "clean_copy" =>
        /\ \A i \in 1..Len(yielded) :
              /\ yielded[i].op = "Copy"
              /\ yielded[i].src \in Reach(fs0, cmd.path, cmd.releative)
              /\ IsAudioFile(fs0, yielded[i].src)
              /\ \A j \in 1..Len(yielded) : yielded[j].src = yielded[i].src => j = i
              /\ IsPlaylistFile(fs0, yielded[i].src) =>
                    yielded[i].dst = cmd.dst \o Relative_to(yielded[i].src, cmd.path)
        /\ pc = "done" =>
              \A p \in Reach(fs0, cmd.path, cmd.releative) :
                  IsPlaylistFile(fs0, p) =>
                      Cardinality({i \in 1..Len(yielded) : yielded[i].src = p}) = 1

\* A clean-copy has ended in a tree with a playlist in a subdirectory and a
\* non-audio file: the playlist was copied under the same relative path.
C9_Witness ==
    /\ cmd.name = "clean_copy"
    /\ pc = "done"
    /\ \E p \in DOMAIN fs0 : IsFile(fs0, p) /\ IsPrefix(cmd.path, p) /\ ~IsAudioFile(fs0, p)
    /\ \E i \in 1..Len(yielded) :
          /\ IsPlaylistFile(fs0, yielded[i].src)
          /\ Len(yielded[i].src) = 3
          /\ yielded[i].dst = cmd.dst \o Relative_to(yielded[i].src, cmd.path)

\* -------------------------------------------------------------------------
\* C10
\* -------------------------------------------------------------------------

\* C10: a rename command given an empty audio-file format or an empty album
\* format makes no AudioDirectory (so scans nothing), plans, shows and
\* executes nothing and leaves the filesystem as it was.
C10_EmptyFormatTouchesNothing ==
    EmptyFormatGiven =>
        /\ pc \in {"start", "done"}
        /\ objs = <<>>
        /\ gen = NewGen
        /\ yielded = <<>>
        /\ table = <<>>
        /\ executed = <<>>
        /\ fs = fs0

\* The command has returned on an empty album format, the audio-file format
\* being a usable one, in a tree with files to rename.
C10_Witness ==
    /\ EmptyFormatGiven
    /\ pc = "done"
    /\ cmd.audio_file_format = DefaultAudioFormat
    /\ ~cmd.dry_run
    /\ \E p \in DOMAIN fs : IsMediaFile(fs, p)

\* -------------------------------------------------------------------------
\* C11
\* -------------------------------------------------------------------------

IsRemove(o) == o.op = "Remove"

\* Path x is a proper ancestor of path p.
Above(x, p) == x # p /\ IsPrefix(x, p)

\* C11: in what the cleanup planner yields, no Remove is for the root, and
\* a Remove of a path inside directory X, be it a non-audio file or a
\* directory, at any depth, comes before the Remove of X.
C11_RemovesInsideOut ==
    cmd.name = "cleanup" =>
        \A i \in 1..Len(yielded) :
            IsRemove(yielded[i]) =>
                /\ yielded[i].src # cmd.path
                /\ \A j \in 1..Len(yielded) :
                      IsRemove(yielded[j]) /\ Above(yielded[j].src, yielded[i].src) => i < j

\* The planner has yielded the Remove of a non-audio file two directories
\* down, then that of its directory, then that of the directory above.
C11_Witness ==
    /\ cmd.name = "cleanup"
    /\ \E i, j, k \in 1..Len(yielded) :
          /\ i < j /\ j < k
          /\ IsRemove(yielded[i]) /\ IsRemove(yielded[j]) /\ IsRemove(yielded[k])
          /\ IsFile(fs0, yielded[i].src) /\ ~IsAudioFile(fs0, yielded[i].src)
          /\ yielded[j].src = Parent(yielded[i].src)
          /\ yielded[k].src = Parent(yielded[j].src)

\* -------------------------------------------------------------------------
\* C12
\* -------------------------------------------------------------------------

\* Directory x of tree f has an audio-type file somewhere below it, and
\* directly in it.
HasAudioBelow(f, x) == \E p \in DOMAIN f : Above(x, p) /\ IsAudioFile(f, p)

HasOwnAudio(f, x) == \E p \in DOMAIN f : Parent(p) = x /\ p # x /\ IsAudioFile(f, p)

\* The directories of the tree the run started with, the root apart.
Subdirectories == {x \in DOMAIN fs0 : IsDir(fs0, x) /\ x # cmd.path}

\* Only Removes have been executed: none of the renames of step 3 yet.
OnlyRemoved == \A i \in 1..Len(executed) : IsRemove(executed[i])

OwnAudioPaths(f, p) == SelectSeq(Iterdir(f, p), LAMBDA q : IsAudioFile(f, q))

OwnDirectoryPaths(f, p) == SelectSeq(Iterdir(f, p), LAMBDA q : IsDir(f, q))

\* The audio-type files of the subtree of p, children before self: those
\* of each subdirectory's subtree, the subdirectories in listing order, and
\* then p's own.
RECURSIVE AudioWalk(_, _)

RECURSIVE AudioWalkEach(_, _)
AudioWalkEach(f, dirs) ==
    IF dirs = <<>> THEN <<>>
    ELSE AudioWalk(f, Head(dirs)) \o AudioWalkEach(f, Tail(dirs))

AudioWalk(f, p) == AudioWalkEach(f, OwnDirectoryPaths(f, p)) \o OwnAudioPaths(f, p)

NoRepeats(seq) == Cardinality(Range(seq)) = Len(seq)

\* Where x stands in seq.
IndexIn(seq, x) == CHOOSE i \in 1..Len(seq) : seq[i] = x

\* C13: audios(releative=True) on the root of any tree yields the
\* audio-type files of the subtree, every one and each once, those of every
\* subdirectory's subtree (subdirectories in scan order) before the
\* directory's own, which come in scan order; audios(releative=False) yields
\* the root's own audio-type files in scan order.
C13_AudiosChildrenFirst ==
    calls.op = "audios" =>
        /\ calls.items = IF calls.releative THEN AudioWalk(fs, Lib) ELSE OwnAudioPaths(fs, Lib)
        /\ NoRepeats(calls.items)
        /\ Range(calls.items) =
              {p \in DOMAIN fs : IsAudioFile(fs, p)
                                 /\ IF calls.releative THEN Above(Lib, p) ELSE Parent(p) = Lib}

\* audios(releative=True) has yielded a file of a subdirectory, then one of
\* the root's own, which the root lists before the subdirectory.
C13_Witness ==
    /\ calls.op = "audios"
    /\ calls.releative
    /\ Len(calls.items) = 2
    /\ Len(calls.items[1]) = 3
    /\ Parent(calls.items[2]) = Lib
    /\ IndexIn(fs[Lib].entries, Basename(calls.items[2]))
          < IndexIn(fs[Lib].entries, Basename(Parent(calls.items[1])))

\* -------------------------------------------------------------------------
\* C14
\* -------------------------------------------------------------------------

\* C14: directories(releative=True) on the root of any tree yields every
\* directory below the root, each once and never the root;
\* directories(releative=False) yields the root's immediate subdirectories
\* in scan order.
C14_DirectoriesFlattened ==
    calls.op = "directories" =>
        /\ NoRepeats(calls.items)
        /\ calls.releative =>
              Range(calls.items) = {p \in DOMAIN fs : IsDir(fs, p) /\ Above(Lib, p)}
        /\ ~calls.releative => calls.items = OwnDirectoryPaths(fs, Lib)

\* directories(releative=True) has yielded three directories, one of them
\* two levels down.
C14_Witness ==
    /\ calls.op = "directories"
    /\ calls.releative
    /\ Len(calls.items) = 3
    /\ \E i \in 1..3 : Len(calls.items[i]) = 3

\* -------------------------------------------------------------------------
\* C15
\* -------------------------------------------------------------------------

\* The directories of the subtree of p in the order a recursive walk enters
\* them: p, then each subdirectory's subtree in listing order.
RECURSIVE EnterWalk(_, _)

RECURSIVE EnterWalkEach(_, _)
EnterWalkEach(f, dirs) ==
    IF dirs = <<>> THEN <<>>
    ELSE EnterWalk(f, Head(dirs)) \o EnterWalkEach(f, Tail(dirs))

EnterWalk(f, p) == <<p>> \o EnterWalkEach(f, OwnDirectoryPaths(f, p))

\* Directory x comes after directory d in the walk and is not below d.
ComesAfter(f, x, d) ==
    /\ ~IsPrefix(d, x)
    /\ IndexIn(EnterWalk(f, Lib), x) > IndexIn(EnterWalk(f, Lib), d)

\* The directories whose AudioDirectory has listed them.
Scanned == {objs[id].path : id \in {i \in 1..Len(objs) : objs[i].nscan >= 1}}

\* C15: audio_exists(releative) on the root of any tree returns whether
\* audios(releative) has an element to yield, and it stops at the first:
\* without releative only the root is scanned, and with releative no
\* directory is scanned that comes after the one holding the first audio
\* entry.
C15_AudioExistsStopsAtFirst ==
    calls.op = "audio_exists" =>
        /\ calls.result =
              IF calls.releative THEN AudioWalk(fs, Lib) # <<>> ELSE OwnAudioPaths(fs, Lib) # <<>>
        /\ ~calls.releative => Scanned = {Lib}
        /\ calls.releative /\ calls.result =>
              \A x \in Scanned : ~ComesAfter(fs, x, Parent(AudioWalk(fs, Lib)[1]))

\* audio_exists(releative=True) has answered True from a first subdirectory
\* and has left a later subdirectory unscanned.
C15_Witness ==
    /\ calls.op = "audio_exists"
    /\ calls.releative
    /\ calls.result
    /\ Parent(AudioWalk(fs, Lib)[1]) # Lib
    /\ \E x \in DOMAIN fs :
          /\ IsDir(fs, x)
          /\ ComesAfter(fs, x, Parent(AudioWalk(fs, Lib)[1]))
          /\ ~(x \in Scanned)

\* -------------------------------------------------------------------------
\* C16
\* -------------------------------------------------------------------------

\* The album values a caller passes as album=...
ParamAlbums == {<<"Greatest">>, <<"Other">>}

AlbumParam(album) == [k \in {"album"} |-> album]

\* The node's own attributes give a value for key.
OwnValue(node, key) == getitem(node, key).err = "none"

\* C16 as stated: for every loaded audio file whose own album attribute has
\* a value and every album passed in the parameters, make_rename_operation
\* with "{album}" renders the node's own album, that is, returns what it
\* returns without parameters.
C16_OwnValueRendered ==
    \A node \in AudioNodes :
        \A album \in ParamAlbums :
            OwnValue(node, "album") =>
                make_rename_operation(node, DefaultAlbumFormat, AlbumParam(album))
                    = make_rename_operation(node, DefaultAlbumFormat, NoParams)

\* C16 amended: for every loaded audio file whose own album attribute has a
\* value and every album passed in the parameters, make_rename_operation
\* with "{album}" renders the album of the parameters; a format whose
\* fields the parameters do not define renders the node's own values.
C16_ParamsValueRendered ==
    \A node \in AudioNodes :
        \A album \in ParamAlbums :
            OwnValue(node, "album") =>
                /\ make_rename_operation(node, DefaultAlbumFormat, AlbumParam(album))
                      = RenameClaimed(node, Joinname(Parent(node.path), album))
                /\ make_rename_operation(node, DefaultAudioFormat, AlbumParam(album))
                      = make_rename_operation(node, DefaultAudioFormat, NoParams)

\* A loaded audio file of the album Greatest for which "{album}" with
\* album=Other gives the Rename to Other, not to Greatest.
C16_Witness ==
    \E node \in AudioNodes :
        /\ getitem(node, "album") = Found(<<"Greatest">>)
        /\ make_rename_operation(node, DefaultAlbumFormat, AlbumParam(<<"Other">>))
              = Planned(Operation("Rename", node.path,
                                  Joinpath(Parent(node.path), <<"Other">>)))
        /\ make_rename_operation(node, DefaultAlbumFormat, NoParams)
              = Planned(Operation("Rename", node.path,
                                  Joinpath(Parent(node.path), <<"Greatest">>)))

\* -------------------------------------------------------------------------
\* C17
\* -------------------------------------------------------------------------

\* Neither the node nor the parameters have a value for field key.
NoValue(node, params, key) ==
    /\ key \notin DOMAIN params
    /\ ~HasAttr(node, key) \/ ~Truthy(GetAttr(node, key))

\* The format refers to a field that node and parameters cannot supply.
Unsupplied(node, format, params) ==
    \E i \in 1..Len(format) :
        format[i].kind = "field" /\ NoValue(node, params, format[i].name)

LookupErrors == {"KeyError", "AttributeError"}

\* What the first loop of the rename planner is about to take, before it
\* is asked for its next operation.
NextAudio == Pull(objs, fs, gen.stack, "audios")

PlannerFailsAt(r) ==
    (r.err = "none" /\ ~r.done /\ Unsupplied(r.item, cmd.audio_file_format, NoParams)) =>
        /\ operations(objs, fs, gen, cmd).err \in LookupErrors
        /\ operations(objs, fs, gen, cmd).op = NoOperation
        /\ operations(objs, fs, gen, cmd).done
        /\ operations(objs, fs, gen, cmd).gen.phase = "end"

\* C17: in a rename run, make_rename_operation with a format that refers to
\* a field which neither the audio file nor the parameters supply raises
\* the lookup's error and returns no Operation; when the planner's next
\* audio file is such a file, the planner ends with that error and yields
\* nothing; no operation was ever emitted for such a file; and once the
\* planner has raised, the run is over with the generator finished, every
\* emitted operation being one that was emitted before, and nothing
\* executed that was not emitted.
C17_UnresolvedFieldEndsPlanning ==
    cmd.name = "rename" =>
        /\ \A node \in AudioNodes :
              Unsupplied(node, cmd.audio_file_format, NoParams) =>
                  /\ make_rename_operation(node, cmd.audio_file_format, NoParams).err
                        \in LookupErrors
                  /\ make_rename_operation(node, cmd.audio_file_format, NoParams).op
                        = NoOperation
                  /\ \A i \in 1..Len(yielded) : yielded[i].src # node.path
        /\ (pc = "next" /\ gen.phase = "audios") => PlannerFailsAt(NextAudio)
        /\ (pc = "raised" /\ error.at = "ops" /\ error.exc \in LookupErrors) =>
              /\ gen.phase = "end"
              /\ operations(objs, fs, gen, cmd).done
              /\ executed = yielded
              /\ \E node \in AudioNodes : Unsupplied(node, cmd.audio_file_format, NoParams)

\* A rename run, not a dry run, ended by the planner's KeyError at a file
\* without a title after one Rename was executed, while a loaded audio file
\* that the format would rename was never reached.
C17_Witness ==
    /\ cmd.name = "rename"
    /\ ~cmd.dry_run
    /\ pc = "raised"
    /\ error = Error("KeyError", "ops")
    /\ Len(executed) = 1
    /\ \E bare \in AudioNodes :
          /\ Unsupplied(bare, cmd.audio_file_format, NoParams)
          /\ \E later \in AudioNodes :
                /\ ~Unsupplied(later, cmd.audio_file_format, NoParams)
                /\ make_rename_operation(later, cmd.audio_file_format, NoParams).op
                      # NoOperation
                /\ \A i \in 1..Len(yielded) : yielded[i].src # later.path

\* -------------------------------------------------------------------------
\* C18
\* -------------------------------------------------------------------------

\* The first operation of the run is a Remove and it has been executed, not
\* as a dry run: fs0 is what it found and fs what it left.
RemoveExecutedFirst ==
    /\ ~cmd.dry_run
    /\ Len(executed) = 1
    /\ executed[1].op = "Remove"

\* C18: a Remove executed on an empty directory leaves the filesystem
\* without that directory and otherwise as it was, ancestors included; on a
\* directory with entries it fails and leaves the filesystem as it was; on
\* a file it leaves the filesystem without that file and otherwise as it
\* was.
C18_RemovesOnlyItsSource ==
    RemoveExecutedFirst =>
        /\ IsEmptyDir(fs0, executed[1].src) =>
              fs = Unlink(fs0, executed[1].src) /\ error = NoError
        /\ (IsDir(fs0, executed[1].src) /\ ~IsEmptyDir(fs0, executed[1].src)) =>
              fs = fs0 /\ error.at = "execute"
        /\ IsFile(fs0, executed[1].src) =>
              fs = Unlink(fs0, executed[1].src) /\ error = NoError

\* -------------------------------------------------------------------------
\* C19
\* -------------------------------------------------------------------------

\* The paths an object holds in its three collections, one after another.
Collected(heap, id) ==
    PathsOfNodes(heap[id].audios) \o PathsOfNodes(heap[id].other)
        \o PathsOfObjects(heap, heap[id].childs)

\* C19: after any calls of load() and load(reload=True), every object that
\* has scanned its directory holds no path twice in its audio, other and
\* child collections taken together, and holds exactly the paths its most
\* recent scan listed.
C19_CollectionsAreLastScan ==
    \A id \in DOMAIN calls.seen :
        /\ NoRepeats(Collected(objs, id))
        /\ Range(Collected(objs, id)) = Range(calls.seen[id])

\* -------------------------------------------------------------------------
\* C20
\* -------------------------------------------------------------------------

\* No two of the operations lead to the same destination.
DistinctDsts(ops) ==
    \A i \in 1..Len(ops) : \A j \in 1..Len(ops) : i # j => ops[i].dst # ops[j].dst

\* C20: in a rename run that is not a dry run, as long as no two of the
\* operations emitted lead to the same destination, the source of the
\* operation about to be executed exists; no Rename of a file is emitted
\* after the Rename of a directory; and no Rename of a directory is emitted
\* after the Rename of a directory above it.
C20_SourceExistsWhenExecuted ==
    (cmd.name = "rename" /\ ~cmd.dry_run /\ DistinctDsts(yielded)) =>
        /\ pc = "exec" => Exists(fs, cur.src)
        /\ \A i \in 1..Len(yielded) : \A j \in 1..Len(yielded) :
              (i < j /\ IsDir(fs0, yielded[i].src)) =>
                  /\ IsDir(fs0, yielded[j].src)
                  /\ ~Above(yielded[i].src, yielded[j].src)

\* A run with --releative has ended without error after three Renames: a
\* file in a directory, the directory of that file, which lies in another
\* directory, and then that other directory.
C20_Witness ==
    /\ cmd.name = "rename"
    /\ ~cmd.dry_run
    /\ pc = "done"
    /\ error = NoError
    /\ DistinctDsts(yielded)
    /\ \E i \in 1..Len(executed) : \E j \in 1..Len(executed) : \E k \in 1..Len(executed) :
          /\ i < j /\ j < k
          /\ IsFile(fs0, executed[i].src)
          /\ Parent(executed[i].src) = executed[j].src
          /\ Parent(executed[j].src) = executed[k].src
          /\ executed[k].src # Lib

====
